---- MODULE Spec2Model ----
(***************************************************************************)
(* Room booking client (src/src/App.jsx) against a shared bookings table.  *)
(* Each client holds the viewed day, the visible list of bookings of that  *)
(* day, its settings and the booking form; fetch, upsert and delete are    *)
(* asynchronous requests that the table serves at some later moment and    *)
(* whose responses come back in any order.                                 *)
(*                                                                         *)
(* Time is counted in slots; a local calendar day has SlotsPerDay slots.   *)
(* The rows keep the columns the client's decisions read (id, room, start, *)
(* end); a run is short enough for the clock to stand still.               *)
(* A client's Date values are wall-clock values of the configured zone TZ  *)
(* carried in the client's own zone; offset[c] is the difference between   *)
(* the two zones, so that zonedTimeToUtc subtracts it and utcToZonedTime   *)
(* adds it.                                                                *)
(*                                                                         *)
(* The utility functions (slot enumeration, escapeICS) are called on their *)
(* own in SpecSlots and SpecICS: arg holds the arguments and ret what the  *)
(* call returned, while the App stays in its initial state. SpecDST (the   *)
(* day buttons over a calendar with a clock change) and SpecForm (the      *)
(* form's start time under the operating window) use the same two          *)
(* variables for the part of the state they follow.                        *)
(***************************************************************************)
EXTENDS Integers, Sequences, FiniteSets, TLC

\* ---- bounds of the model ----
SlotsPerDay == 2
MaxDay == 2
MaxIds == 2
MaxFetch == 2
MaxOps == 1
MaxNotif == 1
MaxHour == 24
MaxText == 3
MaxCalDay == 4

Clients == {1}
Rooms == {0, 1}
Days == 0..MaxDay
Slots == 0..(SlotsPerDay - 1)
Durations == {1, 2}
Offsets == {0, 1}
PersonInputs == {<<>>, <<" ">>, <<"a">>}
NoId == 0
Hours == 0..MaxHour
SLOT_MINUTES == 30
DayMinutes == 1440
DayLengths == {23, 24, 25}

VARIABLES
  store,       \* the bookings table: a set of rows, one per id
  now,         \* the current instant (new Date())
  nextId,      \* number of identifiers drawn from uuidv4 so far
  offset,      \* offset[c]: zone TZ minus the zone of client c
  currentDay,  \* currentDay[c]: useState(startOfDay(today))
  bookings,    \* bookings[c]: useState([]), the visible list
  settings,    \* settings[c]: requireName, allowPast
  formId,      \* formId[c]: BookingForm's id state (NoId for null)
  formInst,    \* formInst[c]: which mounted instance of BookingForm is shown
  subs,        \* subs[c]: the day each subscribed "bookings-rt" channel of c
               \* fetches when a change is notified
  formDur,     \* formDur[c]: BookingForm's duration state, <<d>> when it holds
               \* a loaded length d that the select does not offer, else <<>>
  fetches,     \* fetches[c]: fetchBookingsForDay calls awaiting their response
  ops,         \* ops[c]: upsertBooking / deleteBookingDb calls awaiting theirs
  notif,       \* notif[c]: postgres_changes events not yet delivered to c
  result,      \* result[c]: what the last addOrUpdateBooking call reported
  hist,        \* hist[c]: the day of every fetch c issued, in issue order
  applied,     \* applied[c]: issue number of the fetch shown in bookings[c]
  fetchLimit,  \* the number of fetches per client a run follows
  arg,         \* the arguments of a utility function called on its own; in
               \* SpecDST the calendar and currentDay as a Date, in SpecForm
               \* the settings' hours and the form's startTime
  ret          \* what that call, click or submission returned

vars == <<store, now, nextId, offset, currentDay, bookings, settings, formId,
          formInst, formDur, fetches, ops, notif, result, hist, applied,
          fetchLimit, subs, arg, ret>>
\* the variables of the calls of utility functions, and those of the App
util == <<arg, ret>>
app == <<store, now, nextId, offset, currentDay, bookings, settings, formId,
         formInst, formDur, fetches, ops, notif, result, hist, applied,
         fetchLimit, subs>>

\* ---- Utils ----

\* String.prototype.trim on a text given as a sequence of characters
RECURSIVE trim(_)
trim(s) ==
  IF s = <<>> THEN s
  ELSE IF Head(s) = " " THEN trim(Tail(s))
  ELSE IF s[Len(s)] = " " THEN trim(SubSeq(s, 1, Len(s) - 1))
  ELSE s

toUTCISO(c, dateLocal) == dateLocal - offset[c]
fromUTCtoZoned(c, isoUtc) == isoUtc + offset[c]
dayRangeUTC(c, day) ==
  [startUTC |-> toUTCISO(c, day * SlotsPerDay),
   endUTC   |-> toUTCISO(c, (day + 1) * SlotsPerDay)]
todayOf(c) == fromUTCtoZoned(c, now) \div SlotsPerDay

\* .order("start", ascending): rows by start, ties by id
RECURSIVE orderByStart(_)
orderByStart(S) ==
  IF S = {} THEN <<>>
  ELSE LET m == CHOOSE x \in S : \A y \in S :
                  x.start < y.start \/ (x.start = y.start /\ x.id <= y.id)
       IN <<m>> \o orderByStart(S \ {m})

\* .lte in place of .lt on the day's end bound
selectDayInclusive(c, day) ==
  LET r == dayRangeUTC(c, day)
  IN orderByStart({b \in store : b.start >= r.startUTC /\ b.start <= r.endUTC})
\* the rows the select of fetchBookingsForDay returns for a day
selectDay(c, day) ==
  LET r == dayRangeUTC(c, day)
  IN orderByStart({b \in store : b.start >= r.startUTC /\ b.start < r.endUTC})

Range(s) == {s[i] : i \in 1..Len(s)}

\* the row upsertBooking writes for a booking of the form
payload(c, b) ==
  [id |-> b.id, room |-> b.room,
   start |-> toUTCISO(c, b.startLocal), end |-> toUTCISO(c, b.endLocal)]

NoBooking == [id |-> NoId, room |-> 0, person |-> <<>>, startLocal |-> 0, endLocal |-> 0]

\* ---- addOrUpdateBooking: the synchronous checks ----
overlaps(aStart, aEnd, bStart, bEnd) == aStart < bEnd /\ bStart < aEnd

nameMissing(c, newB) == settings[c].requireName /\ trim(newB.person) = <<>>

\* isAfter in place of isBefore
inPastFlipped(c, newB) == ~settings[c].allowPast /\ now < newB.endLocal
\* the start in place of the end
inPastByStart(c, newB) == ~settings[c].allowPast /\ newB.startLocal < now
inPast(c, newB) == ~settings[c].allowPast /\ newB.endLocal < now

\* the stored instants compared without fromUTCtoZoned
conflictRawInstants(c, newB) ==
  \E i \in 1..Len(bookings[c]) :
    LET b == bookings[c][i] IN
      /\ ~(b.room # newB.room \/ b.id = newB.id)
      /\ newB.startLocal < b.end
      /\ b.start < newB.endLocal
\* be < e in place of bs < e
conflictEndTwice(c, newB) ==
  \E i \in 1..Len(bookings[c]) :
    LET b == bookings[c][i] IN
      /\ ~(b.room # newB.room \/ b.id = newB.id)
      /\ newB.startLocal < fromUTCtoZoned(c, b.end)
      /\ fromUTCtoZoned(c, b.end) < newB.endLocal
\* <= in place of <: intervals that only touch count as overlapping
conflictInclusive(c, newB) ==
  \E i \in 1..Len(bookings[c]) :
    LET b == bookings[c][i] IN
      /\ ~(b.room # newB.room \/ b.id = newB.id)
      /\ newB.startLocal <= fromUTCtoZoned(c, b.end)
      /\ fromUTCtoZoned(c, b.start) <= newB.endLocal
\* the own row compared like any other
conflictWithSelf(c, newB) ==
  \E i \in 1..Len(bookings[c]) :
    LET b == bookings[c][i] IN
      /\ ~(b.room # newB.room)
      /\ newB.startLocal < fromUTCtoZoned(c, b.end)
      /\ fromUTCtoZoned(c, b.start) < newB.endLocal
conflict(c, newB) ==
  \E i \in 1..Len(bookings[c]) :
    LET b == bookings[c][i] IN
      /\ ~(b.room # newB.room \/ b.id = newB.id)
      /\ newB.startLocal < fromUTCtoZoned(c, b.end)
      /\ fromUTCtoZoned(c, b.start) < newB.endLocal

\* ---- issuing a fetch: fetchBookingsForDay(day) up to its await ----
canFetch(c) == Len(hist[c]) < fetchLimit
newFetch(c, day, by, b, inst) ==
  [n |-> Len(hist[c]) + 1, day |-> day, by |-> by, b |-> b, inst |-> inst,
   st |-> "sent", data |-> <<>>]

\* a booking another client made earlier: today's first slot, room 0
FirstRow == [id |-> 1, room |-> 0, start |-> SlotsPerDay, end |-> SlotsPerDay + 1]

\* one mounted App over a table that holds the rows rows, followed for
\* limit fetches
InitAppFor(rows, limit) ==
  /\ fetchLimit = limit
  /\ store = rows
  /\ now = SlotsPerDay
  /\ nextId = Cardinality(rows)
  /\ offset \in [Clients -> Offsets]
  /\ currentDay = [c \in Clients |-> todayOf(c)]
  /\ subs = [c \in Clients |-> {currentDay[c]}]
  /\ bookings = [c \in Clients |-> <<>>]
  /\ settings = [c \in Clients |-> [requireName |-> TRUE, allowPast |-> FALSE]]
  /\ formId = [c \in Clients |-> NoId]
  /\ formInst = [c \in Clients |-> 1]
  /\ formDur = [c \in Clients |-> <<>>]
  /\ hist = [c \in Clients |-> <<currentDay[c]>>]
  /\ fetches = [c \in Clients |->
       {[n |-> 1, day |-> currentDay[c], by |-> "load", b |-> NoBooking,
         inst |-> 0, st |-> "sent", data |-> <<>>]}]
  /\ ops = [c \in Clients |-> {}]
  /\ notif = [c \in Clients |-> 0]
  /\ result = [c \in Clients |-> "none"]
  /\ applied = [c \in Clients |-> 0]

InitApp(rows) == InitAppFor(rows, MaxFetch)

\* no utility function is called on its own
NoCall == [fn |-> "none", kind |-> "none", v |-> <<>>]

Init == InitApp({FirstRow}) /\ arg = <<>> /\ ret = NoCall

\* ---- day navigation: setCurrentDay and the two effects on [currentDay] ----
\* the realtime effect without its cleanup (no supabase.removeChannel)
setCurrentDayNoCleanup(c, d) ==
  /\ d \in Days
  /\ canFetch(c)
  /\ currentDay' = [currentDay EXCEPT ![c] = d]
  /\ fetches' = [fetches EXCEPT ![c] = @ \cup {newFetch(c, d, "load", NoBooking, 0)}]
  /\ hist' = [hist EXCEPT ![c] = Append(@, d)]
  /\ subs' = [subs EXCEPT ![c] = @ \cup {d}]
  /\ IF d # currentDay[c]
       THEN /\ formId' = [formId EXCEPT ![c] = NoId]
            /\ formInst' = [formInst EXCEPT ![c] = Len(hist[c]) + 1]
            /\ formDur' = [formDur EXCEPT ![c] = <<>>]
       ELSE UNCHANGED <<formId, formInst, formDur>>
  /\ UNCHANGED <<store, now, nextId, offset, fetchLimit, bookings, settings, ops, notif,
                 result, applied>>
setCurrentDay(c, d) ==
  /\ d \in Days
  /\ canFetch(c)
  /\ currentDay' = [currentDay EXCEPT ![c] = d]
  /\ fetches' = [fetches EXCEPT ![c] = @ \cup {newFetch(c, d, "load", NoBooking, 0)}]
  /\ hist' = [hist EXCEPT ![c] = Append(@, d)]
  /\ subs' = [subs EXCEPT ![c] = (@ \ {currentDay[c]}) \cup {d}]
  /\ IF d # currentDay[c]
       THEN /\ formId' = [formId EXCEPT ![c] = NoId]
            /\ formInst' = [formInst EXCEPT ![c] = Len(hist[c]) + 1]
            /\ formDur' = [formDur EXCEPT ![c] = <<>>]
       ELSE UNCHANGED <<formId, formInst, formDur>>
  /\ UNCHANGED <<store, now, nextId, offset, fetchLimit, bookings, settings, ops, notif,
                 result, applied>>

PrevDay(c) == setCurrentDay(c, currentDay[c] - 1)
NextDay(c) == setCurrentDay(c, currentDay[c] + 1)
Hoy(c) == setCurrentDay(c, todayOf(c))
SelectDay(c, d) == setCurrentDay(c, d)

\* ---- realtime callback ----
OnChange(c, d) ==
  /\ notif[c] > 0
  /\ d \in subs[c]
  /\ canFetch(c)
  /\ notif' = [notif EXCEPT ![c] = @ - 1]
  /\ fetches' = [fetches EXCEPT ![c] = @ \cup {newFetch(c, d, "rt", NoBooking, 0)}]
  /\ hist' = [hist EXCEPT ![c] = Append(@, d)]
  /\ UNCHANGED <<store, now, nextId, offset, fetchLimit, subs, currentDay, bookings, settings,
                 formId, formInst, formDur, ops, result, applied>>

\* ---- the table serves a fetch ----
FetchServed(c, f) ==
  /\ f \in fetches[c] /\ f.st = "sent"
  /\ fetches' = [fetches EXCEPT ![c] =
       (@ \ {f}) \cup {[f EXCEPT !.st = "ok", !.data = selectDay(c, f.day)]}]
  /\ UNCHANGED <<store, now, nextId, offset, fetchLimit, subs, currentDay, bookings, settings,
                 formId, formInst, formDur, ops, notif, result, hist, applied>>

\* what fetchBookingsForDay returns to its caller
fetchResult(f) == IF f.st = "err" THEN <<>> ELSE f.data

\* the fetched rows appended to the list in place of replacing it
applyFetchMerge(c, f) ==
  /\ fetches' = [fetches EXCEPT ![c] = {g \in @ : g.n # f.n}]
  /\ bookings' = [bookings EXCEPT ![c] = @ \o fetchResult(f)]
  /\ applied' = [applied EXCEPT ![c] = f.n]
  /\ IF f.by = "upsert"
       THEN /\ result' = [result EXCEPT ![c] = "ok"]
            /\ formId' = [formId EXCEPT ![c] = IF formInst[c] = f.inst THEN NoId ELSE @]
       ELSE UNCHANGED <<result, formId>>
  /\ UNCHANGED <<store, now, nextId, offset, fetchLimit, subs, currentDay, settings, formInst, formDur,
                 ops, notif, hist>>

\* setBookings(await fetchBookingsForDay(day)) and, for the refetch of
\* addOrUpdateBooking, return true and the rest of handleSubmit
applyFetch(c, f) ==
  /\ fetches' = [fetches EXCEPT ![c] = {g \in @ : g.n # f.n}]
  /\ bookings' = [bookings EXCEPT ![c] = fetchResult(f)]
  /\ applied' = [applied EXCEPT ![c] = f.n]
  /\ IF f.by = "upsert"
       THEN /\ result' = [result EXCEPT ![c] = "ok"]
            /\ formId' = [formId EXCEPT ![c] = IF formInst[c] = f.inst THEN NoId ELSE @]
       ELSE UNCHANGED <<result, formId>>
  /\ UNCHANGED <<store, now, nextId, offset, fetchLimit, subs, currentDay, settings, formInst, formDur,
                 ops, notif, hist>>

\* ---- the response of a served fetch arrives ----
FetchReturn(c, f) ==
  /\ f \in fetches[c] /\ f.st = "ok"
  /\ applyFetch(c, f)

\* ---- a fetch fails: the error branch of fetchBookingsForDay ----
FetchFailed(c, f) ==
  /\ f \in fetches[c] /\ f.st = "sent"
  /\ applyFetch(c, [f EXCEPT !.st = "err"])

\* ---- settings panel: save() ----
SettingsSave(c, requireName, allowPast) ==
  /\ settings' = [settings EXCEPT ![c] =
       [requireName |-> requireName, allowPast |-> allowPast]]
  /\ UNCHANGED <<store, now, nextId, offset, fetchLimit, subs, currentDay, bookings, formId,
                 formInst, formDur, fetches, ops, notif, result, hist, applied>>

\* ---- "Editar" on a shown booking: the load-booking event, handleLoad ----
LoadBooking(c, i) ==
  /\ i \in 1..Len(bookings[c])
  /\ formId' = [formId EXCEPT ![c] = bookings[c][i].id]
  /\ LET s == fromUTCtoZoned(c, bookings[c][i].start)
         d == fromUTCtoZoned(c, bookings[c][i].end) - s
     IN formDur' = [formDur EXCEPT ![c] = IF d \in Durations THEN <<>> ELSE <<d>>]
  /\ UNCHANGED <<store, now, nextId, offset, fetchLimit, subs, currentDay, bookings, settings,
                 formInst, fetches, ops, notif, result, hist, applied>>

\* ---- BookingForm.handleSubmit and addOrUpdateBooking up to its first await ----
\* uuidv4() also while a booking is loaded
formBookingFresh(c, room, person, slot, duration) ==
  LET startLocal == currentDay[c] * SlotsPerDay + slot
  IN [id |-> nextId + 1,
      room |-> room, person |-> trim(person),
      startLocal |-> startLocal, endLocal |-> startLocal + duration]
formBooking(c, room, person, slot, duration) ==
  LET startLocal == currentDay[c] * SlotsPerDay + slot
  IN [id |-> IF formId[c] # NoId THEN formId[c] ELSE nextId + 1,
      room |-> room, person |-> trim(person),
      startLocal |-> startLocal, endLocal |-> startLocal + duration]

addOrUpdateBooking(c, newB) ==
  IF nameMissing(c, newB) \/ inPast(c, newB)
    THEN /\ result' = [result EXCEPT ![c] =
              IF nameMissing(c, newB) THEN "name" ELSE "past"]
         /\ UNCHANGED <<store, now, nextId, offset, fetchLimit, subs, currentDay, bookings,
                        settings, formId, formInst, formDur, fetches, ops, notif, hist,
                        applied>>
  ELSE IF conflict(c, newB)
    THEN /\ result' = [result EXCEPT ![c] = "conflict"]
         /\ UNCHANGED <<store, now, nextId, offset, fetchLimit, subs, currentDay, bookings,
                        settings, formId, formInst, formDur, fetches, ops, notif, hist,
                        applied>>
  ELSE /\ Cardinality(ops[c]) < MaxOps
       /\ ops' = [ops EXCEPT ![c] = @ \cup
            {[kind |-> "upsert", b |-> newB, day |-> currentDay[c],
              inst |-> formInst[c], st |-> "sent"]}]
       /\ nextId' = IF newB.id > nextId THEN newB.id ELSE nextId
       /\ UNCHANGED <<store, now, offset, fetchLimit, subs, currentDay, bookings, settings,
                      formId, formInst, formDur, fetches, notif, result, hist, applied>>

\* the value the last addOrUpdateBooking call of c returned to handleSubmit
returnValue(c) ==
  CASE result[c] = "ok" -> "true"
    [] result[c] \in {"name", "past", "conflict", "repo"} -> "false"
    [] OTHER -> "none"

handleSubmit(c, room, person, slot, duration) ==
  /\ formId[c] # NoId \/ nextId < MaxIds
  /\ addOrUpdateBooking(c, formBooking(c, room, person, slot, duration))

\* ---- "Cancelar" on a shown booking: deleteBooking up to its await ----
deleteBooking(c, i) ==
  /\ i \in 1..Len(bookings[c])
  /\ Cardinality(ops[c]) < MaxOps
  /\ ops' = [ops EXCEPT ![c] = @ \cup
       {[kind |-> "delete", b |-> [NoBooking EXCEPT !.id = bookings[c][i].id],
         day |-> currentDay[c], inst |-> formInst[c], st |-> "sent"]}]
  /\ UNCHANGED <<store, now, nextId, offset, fetchLimit, subs, currentDay, bookings, settings,
                 formId, formInst, formDur, fetches, notif, result, hist, applied>>

\* ---- the table serves an upsert or a delete ----
notify(n) == [c \in Clients |-> IF n[c] < MaxNotif THEN n[c] + 1 ELSE n[c]]

UpsertApplied(c, o) ==
  /\ o \in ops[c] /\ o.kind = "upsert" /\ o.st = "sent"
  /\ store' = {r \in store : r.id # o.b.id} \cup {payload(c, o.b)}
  /\ ops' = [ops EXCEPT ![c] = (@ \ {o}) \cup {[o EXCEPT !.st = "ok"]}]
  /\ notif' = notify(notif)
  /\ UNCHANGED <<now, nextId, offset, fetchLimit, subs, currentDay, bookings, settings, formId,
                 formInst, formDur, fetches, result, hist, applied>>

\* delete() without the .eq("id", id) filter
DeleteAppliedAll(c, o) ==
  /\ o \in ops[c] /\ o.kind = "delete" /\ o.st = "sent"
  /\ store' = {}
  /\ ops' = [ops EXCEPT ![c] = (@ \ {o}) \cup {[o EXCEPT !.st = "ok"]}]
  /\ notif' = IF store' # store THEN notify(notif) ELSE notif
  /\ UNCHANGED <<now, nextId, offset, fetchLimit, subs, currentDay, bookings, settings, formId,
                 formInst, formDur, fetches, result, hist, applied>>

DeleteApplied(c, o) ==
  /\ o \in ops[c] /\ o.kind = "delete" /\ o.st = "sent"
  /\ store' = {r \in store : r.id # o.b.id}
  /\ ops' = [ops EXCEPT ![c] = (@ \ {o}) \cup {[o EXCEPT !.st = "ok"]}]
  /\ notif' = IF store' # store THEN notify(notif) ELSE notif
  /\ UNCHANGED <<now, nextId, offset, fetchLimit, subs, currentDay, bookings, settings, formId,
                 formInst, formDur, fetches, result, hist, applied>>

\* ---- the await of upsertBooking / deleteBookingDb resumes ----
\* deleteBooking without its setBookings(await fetchBookingsForDay(...))
OpResolvedNoDeleteRefetch(c, o) ==
  /\ o \in ops[c] /\ o.st = "ok"
  /\ canFetch(c)
  /\ ops' = [ops EXCEPT ![c] = @ \ {o}]
  /\ fetches' = [fetches EXCEPT ![c] = IF o.kind = "delete" THEN @
         ELSE @ \cup {newFetch(c, o.day, o.kind, o.b, o.inst)}]
  /\ hist' = [hist EXCEPT ![c] = IF o.kind = "delete" THEN @ ELSE Append(@, o.day)]
  /\ UNCHANGED <<store, now, nextId, offset, fetchLimit, subs, currentDay, bookings, settings,
                 formId, formInst, formDur, notif, result, applied>>
\* try branch: the refetch of the day the handler closed over
OpResolved(c, o) ==
  /\ o \in ops[c] /\ o.st = "ok"
  /\ canFetch(c)
  /\ ops' = [ops EXCEPT ![c] = @ \ {o}]
  /\ fetches' = [fetches EXCEPT ![c] = @ \cup {newFetch(c, o.day, o.kind, o.b, o.inst)}]
  /\ hist' = [hist EXCEPT ![c] = Append(@, o.day)]
  /\ UNCHANGED <<store, now, nextId, offset, fetchLimit, subs, currentDay, bookings, settings,
                 formId, formInst, formDur, notif, result, applied>>

\* the list patched before the request and not rolled back in the catch branch
OpRejectedOptimistic(c, o) ==
  /\ o \in ops[c] /\ o.st = "sent"
  /\ ops' = [ops EXCEPT ![c] = @ \ {o}]
  /\ result' = [result EXCEPT ![c] = IF o.kind = "upsert" THEN "repo" ELSE @]
  /\ bookings' = [bookings EXCEPT ![c] =
       IF o.kind = "upsert" THEN Append(@, payload(c, o.b)) ELSE @]
  /\ UNCHANGED <<store, now, nextId, offset, fetchLimit, subs, currentDay, settings,
                 formId, formInst, formDur, fetches, notif, hist, applied>>

\* the request fails and the catch branch runs
OpRejected(c, o) ==
  /\ o \in ops[c] /\ o.st = "sent"
  /\ ops' = [ops EXCEPT ![c] = @ \ {o}]
  /\ result' = [result EXCEPT ![c] = IF o.kind = "upsert" THEN "repo" ELSE @]
  /\ UNCHANGED <<store, now, nextId, offset, fetchLimit, subs, currentDay, bookings, settings,
                 formId, formInst, formDur, fetches, notif, hist, applied>>

Next ==
  \/ \E c \in Clients : PrevDay(c) /\ UNCHANGED util
  \/ \E c \in Clients : NextDay(c) /\ UNCHANGED util
  \/ \E c \in Clients : Hoy(c) /\ UNCHANGED util
  \/ \E c \in Clients, d \in Days : SelectDay(c, d) /\ UNCHANGED util
  \/ \E c \in Clients : \E d \in subs[c] : OnChange(c, d) /\ UNCHANGED util
  \/ \E c \in Clients : \E f \in fetches[c] : FetchServed(c, f) /\ UNCHANGED util
  \/ \E c \in Clients : \E f \in fetches[c] : FetchFailed(c, f) /\ UNCHANGED util
  \/ \E c \in Clients : \E f \in fetches[c] : FetchReturn(c, f) /\ UNCHANGED util
  \/ \E c \in Clients : \E i \in 1..Len(bookings[c]) : LoadBooking(c, i) /\ UNCHANGED util
  \/ \E c \in Clients : \E room \in Rooms, person \in PersonInputs, slot \in Slots,
        duration \in Durations \cup Range(formDur[c]) :
          handleSubmit(c, room, person, slot, duration) /\ UNCHANGED util
  \/ \E c \in Clients : \E i \in 1..Len(bookings[c]) : deleteBooking(c, i) /\ UNCHANGED util
  \/ \E c \in Clients : \E o \in ops[c] : UpsertApplied(c, o) /\ UNCHANGED util
  \/ \E c \in Clients : \E o \in ops[c] : DeleteApplied(c, o) /\ UNCHANGED util
  \/ \E c \in Clients : \E o \in ops[c] : OpResolved(c, o) /\ UNCHANGED util
  \/ \E c \in Clients : \E o \in ops[c] : OpRejected(c, o) /\ UNCHANGED util

\* the client under the settings it starts with
Spec == Init /\ [][Next]_vars

\* a row of length zero that another writer left in the table: today's first
\* slot, room 1
ZeroRow == [id |-> 2, room |-> 1, start |-> SlotsPerDay, end |-> SlotsPerDay]

InitForeign == InitApp({FirstRow, ZeroRow}) /\ arg = <<>> /\ ret = NoCall

\* the client over a table that other writers filled
SpecForeign == InitForeign /\ [][Next]_vars

\* a booking of room 1 that another client made earlier: it starts in the last
\* slot of yesterday and ends after today's first slot
NightRow ==
  [id |-> 2, room |-> 1, start |-> SlotsPerDay - 1, end |-> SlotsPerDay + 1]

InitMidnight == InitApp({FirstRow, NightRow}) /\ arg = <<>> /\ ret = NoCall

\* the client over a table with a booking that crosses midnight
SpecMidnight == InitMidnight /\ [][Next]_vars

\* the same with the settings panel in use
NextSettings ==
  \/ Next
  \/ \E c \in Clients, rn \in BOOLEAN, ap \in BOOLEAN :
       SettingsSave(c, rn, ap) /\ UNCHANGED util

SpecSettings == Init /\ [][NextSettings]_vars

\* submissions under every setting, on the days before and after today
NextValidate ==
  \/ \E c \in Clients, rn \in BOOLEAN, ap \in BOOLEAN :
       SettingsSave(c, rn, ap) /\ UNCHANGED util
  \/ \E c \in Clients : PrevDay(c) /\ UNCHANGED util
  \/ \E c \in Clients : NextDay(c) /\ UNCHANGED util
  \/ \E c \in Clients : \E f \in fetches[c] : FetchServed(c, f) /\ UNCHANGED util
  \/ \E c \in Clients : \E f \in fetches[c] : FetchReturn(c, f) /\ UNCHANGED util
  \/ \E c \in Clients : \E f \in fetches[c] : FetchFailed(c, f) /\ UNCHANGED util
  \/ \E c \in Clients : \E room \in Rooms, person \in PersonInputs, slot \in Slots,
        duration \in Durations \cup Range(formDur[c]) :
          handleSubmit(c, room, person, slot, duration) /\ UNCHANGED util
  \/ \E c \in Clients : \E o \in ops[c] : UpsertApplied(c, o) /\ UNCHANGED util
  \/ \E c \in Clients : \E o \in ops[c] : OpResolved(c, o) /\ UNCHANGED util
  \/ \E c \in Clients : \E o \in ops[c] : OpRejected(c, o) /\ UNCHANGED util

SpecValidate == Init /\ [][NextValidate]_vars

\* one more fetch followed: the day changed while a write is under way
InitNav == InitAppFor({FirstRow}, MaxFetch + 1) /\ arg = <<>> /\ ret = NoCall

NextNav ==
  \/ \E c \in Clients : PrevDay(c) /\ UNCHANGED util
  \/ \E c \in Clients : NextDay(c) /\ UNCHANGED util
  \/ \E c \in Clients : \E d \in subs[c] : OnChange(c, d) /\ UNCHANGED util
  \/ \E c \in Clients : \E f \in fetches[c] : FetchServed(c, f) /\ UNCHANGED util
  \/ \E c \in Clients : \E f \in fetches[c] : FetchReturn(c, f) /\ UNCHANGED util
  \/ \E c \in Clients : \E room \in Rooms, person \in PersonInputs, slot \in Slots,
        duration \in Durations \cup Range(formDur[c]) :
          handleSubmit(c, room, person, slot, duration) /\ UNCHANGED util
  \/ \E c \in Clients : \E i \in 1..Len(bookings[c]) : deleteBooking(c, i) /\ UNCHANGED util
  \/ \E c \in Clients : \E o \in ops[c] : UpsertApplied(c, o) /\ UNCHANGED util
  \/ \E c \in Clients : \E o \in ops[c] : DeleteApplied(c, o) /\ UNCHANGED util
  \/ \E c \in Clients : \E o \in ops[c] : OpResolved(c, o) /\ UNCHANGED util
  \/ \E c \in Clients : \E o \in ops[c] : OpRejected(c, o) /\ UNCHANGED util

SpecNav == InitNav /\ [][NextNav]_vars

\* ---- utility functions, called on their own ----
\* a call that returned the value v
returned(fn, v) == [fn |-> fn, kind |-> "value", v |-> v]

\* enumerateSlots(day, startHour, endHour): the Dates of the day's slots, as
\* minutes after startOfDay(day)
RECURSIVE slotsWhile(_, _)
slotsWhile(t, end) ==
  IF t < end THEN <<t>> \o slotsWhile(t + SLOT_MINUTES, end) ELSE <<>>
\* t <= end in place of t < end
enumerateSlotsInclusive(startHour, endHour) ==
  slotsWhile(startHour * 60, endHour * 60 + 1)
enumerateSlots(startHour, endHour) == slotsWhile(startHour * 60, endHour * 60)

\* BookingForm's timeOptions: the labels "HH:MM" as pairs <<hour, minute>>
RECURSIVE minutesFor(_, _)
minutesFor(h, m) ==
  IF m < 60 THEN <<<<h, m>>>> \o minutesFor(h, m + SLOT_MINUTES) ELSE <<>>
RECURSIVE hoursFor(_, _)
hoursFor(h, endHour) ==
  IF h < endHour THEN minutesFor(h, 0) \o hoursFor(h + 1, endHour) ELSE <<>>
timeOptions(startHour, endHour) == hoursFor(startHour, endHour)

InitSlots == InitApp({FirstRow}) /\ arg \in Hours \X Hours /\ ret = NoCall

CallEnumerateSlots ==
  /\ ret.fn # "enumerateSlots"
  /\ ret' = returned("enumerateSlots", enumerateSlots(arg[1], arg[2]))
  /\ UNCHANGED <<arg, app>>

CallTimeOptions ==
  /\ ret.fn # "timeOptions"
  /\ ret' = returned("timeOptions", timeOptions(arg[1], arg[2]))
  /\ UNCHANGED <<arg, app>>

NextSlots ==
  \/ CallEnumerateSlots
  \/ CallTimeOptions

\* slot enumeration for every pair of settings hours
SpecSlots == InitSlots /\ [][NextSlots]_vars

\* escapeICS(text): String.prototype.replace with a global pattern, one
\* character for a two-character replacement
RECURSIVE replaceAll(_, _, _)
replaceAll(s, ch, rep) ==
  IF s = <<>> THEN <<>>
  ELSE (IF Head(s) = ch THEN rep ELSE <<Head(s)>>) \o replaceAll(Tail(s), ch, rep)

\* the backslash pass last instead of first
escapeICSBackslashLast(text) ==
  replaceAll(replaceAll(replaceAll(replaceAll(text,
    "\n", <<"\\", "n">>), ",", <<"\\", ",">>), ";", <<"\\", ";">>),
    "\\", <<"\\", "\\">>)
escapeICS(text) ==
  replaceAll(replaceAll(replaceAll(replaceAll(text,
    "\\", <<"\\", "\\">>), "\n", <<"\\", "n">>), ",", <<"\\", ",">>),
    ";", <<"\\", ";">>)

\* the characters of the texts: the four escaped ones, and two others
Chars == {"\\", "\n", ",", ";", "n", "a"}
RECURSIVE Texts(_)
Texts(n) ==
  IF n = 0 THEN {<<>>}
  ELSE Texts(n - 1) \cup {Append(s, ch) : s \in Texts(n - 1), ch \in Chars}

InitICS == InitApp({FirstRow}) /\ arg \in Texts(MaxText) /\ ret = NoCall

CallEscapeICS ==
  /\ ret = NoCall
  /\ ret' = returned("escapeICS", escapeICS(arg))
  /\ UNCHANGED <<arg, app>>

NextICS == CallEscapeICS

\* escapeICS on every text up to MaxText characters
SpecICS == InitICS /\ [][NextICS]_vars

\* ---- the "Ayer" and "Mañana" buttons over a calendar with a clock change ----
\* Dates are counted in hours from the start of local day 0; in the calendar
\* cal every local day has 24 hours but the day cal.shift, which has cal.hours.
dayStartAt(cal, k) == 24 * k + (IF k > cal.shift THEN cal.hours - 24 ELSE 0)
\* format(d, "yyyy-MM-dd"): the local day the Date d falls on
toDateInput(cal, d) ==
  CHOOSE k \in -1..(MaxCalDay + 1) : dayStartAt(cal, k) <= d /\ d < dayStartAt(cal, k + 1)
addMinutes(date, amount) == date + amount \div 60

\* currentDay is startOfDay of some day of the calendar
InitDST ==
  /\ InitApp({FirstRow})
  /\ arg \in {[shift |-> k, hours |-> h, date |-> dayStartAt([shift |-> k, hours |-> h], d)] :
                k \in 0..MaxCalDay, h \in DayLengths, d \in 0..MaxCalDay}
  /\ ret = NoCall

\* the Dates the calendar covers
inCalendar(d) == dayStartAt(arg, 0) <= d /\ d < dayStartAt(arg, MaxCalDay + 1)

\* onClick of "Ayer": setCurrentDay(addMinutes(currentDay, -1440))
ClickAyer ==
  LET d == addMinutes(arg.date, -DayMinutes) IN
    /\ inCalendar(d)
    /\ arg' = [arg EXCEPT !.date = d]
    /\ ret' = returned("Ayer", <<toDateInput(arg, arg.date), toDateInput(arg, d)>>)
    /\ UNCHANGED app

\* onClick of "Mañana": setCurrentDay(addMinutes(currentDay, 1440))
ClickManana ==
  LET d == addMinutes(arg.date, DayMinutes) IN
    /\ inCalendar(d)
    /\ arg' = [arg EXCEPT !.date = d]
    /\ ret' = returned("Manana", <<toDateInput(arg, arg.date), toDateInput(arg, d)>>)
    /\ UNCHANGED app

NextDST ==
  \/ ClickAyer
  \/ ClickManana

\* day navigation around a day of 23 or 25 hours
SpecDST == InitDST /\ [][NextDST]_vars

\* ---- BookingForm's start time under the settings' operating window ----
\* arg holds settings.startHour, settings.endHour and the form's startTime
\* state, a label "HH:MM" as the pair <<hour, minute>>
StartHours == {0, 8, 10}
EndHours == {12, 22, 24}

\* useState of settings and of startTime
InitForm ==
  /\ InitApp({FirstRow})
  /\ arg = [startHour |-> 8, endHour |-> 22, startTime |-> <<9, 0>>]
  /\ ret = NoCall

\* SettingsPanel.save() with the two hours edited
FormSave(startHour, endHour) ==
  /\ ret = NoCall
  /\ arg' = [arg EXCEPT !.startHour = startHour, !.endHour = endHour]
  /\ UNCHANGED <<ret, app>>

\* onChange of the start select: one of the options it offers
FormSelectStart(t) ==
  /\ ret = NoCall
  /\ t \in Range(timeOptions(arg.startHour, arg.endHour))
  /\ arg' = [arg EXCEPT !.startTime = t]
  /\ UNCHANGED <<ret, app>>

\* handleLoad: setStartTime(format(fromUTCtoZoned(b.start), "HH:mm"))
FormLoad(t) ==
  /\ ret = NoCall
  /\ arg' = [arg EXCEPT !.startTime = t]
  /\ UNCHANGED <<ret, app>>

\* handleSubmit: the [hh, mm] the booking's startLocal is built from
FormSubmit ==
  /\ ret = NoCall
  /\ ret' = returned("handleSubmit", arg.startTime)
  /\ UNCHANGED <<arg, app>>

NextForm ==
  \/ \E startHour \in StartHours, endHour \in EndHours : FormSave(startHour, endHour)
  \/ \E t \in Range(timeOptions(0, MaxHour)) : FormSelectStart(t)
  \/ \E t \in Range(timeOptions(0, MaxHour)) : FormLoad(t)
  \/ FormSubmit

\* the form's start time through settings changes, selections and loads
SpecForm == InitForm /\ [][NextForm]_vars

\* ==== properties ====

\* the fetch f of client c completes in this step (its response or its error
\* reaches setBookings)
completes(c, f) == f \in fetches[c] /\ \A g \in fetches'[c] : g.n # f.n
\* a fetch for the same day was issued after fetch number n
superseded(c, n) == \E m \in (n + 1)..Len(hist[c]) : hist[c][m] = hist[c][n]
\* half-open intervals of two rows intersect
rowsOverlap(a, b) == a.start < b.end /\ b.start < a.end
\* no request of client c is under way and no notification is pending
quiescent(c) == fetches[c] = {} /\ ops[c] = {} /\ notif[c] = 0

\* C1: a response of a fetch that a later-issued fetch of the same day has
\* superseded is discarded: the step in which it completes leaves the visible
\* list as it was.
C1_SupersededDiscarded ==
  [][\A c \in Clients : \A f \in fetches[c] :
       (completes(c, f) /\ superseded(c, f.n)) => bookings'[c] = bookings[c]]_vars

\* C2: once every fetch issued for the viewed day has completed, the visible
\* list is the result of the last-issued one.
C2_LastIssuedWins ==
  \A c \in Clients :
    (fetches[c] = {} /\ \A i \in 1..Len(hist[c]) : hist[c][i] = currentDay[c])
      => applied[c] = Len(hist[c])

\* C3: the visible list is never set to the result of a fetch issued for a day
\* other than the viewed day.
C3_OnlyViewedDayApplied ==
  [][\A c \in Clients : \A f \in fetches[c] :
       completes(c, f) => (f.day = currentDay[c] \/ bookings'[c] = bookings[c])]_vars

\* C4 (as stated): no two rows of the table with the same room overlap.
C4_NoOverlapInStore ==
  \A a \in store : \A b \in store :
    (a.id # b.id /\ a.room = b.room) => ~rowsOverlap(a, b)

\* C4 (amended): every upsert a client issues carries a row that overlaps no
\* row of the same room and another id in the list that client showed when it
\* issued it.
C4_UpsertPassedPrecheck ==
  [][\A c \in Clients : \A o \in ops'[c] \ ops[c] :
       (o.kind = "upsert" /\ o.st = "sent") =>
         \A i \in 1..Len(bookings[c]) :
           (bookings[c][i].room = o.b.room /\ bookings[c][i].id # o.b.id)
             => ~rowsOverlap(payload(c, o.b), bookings[c][i])]_vars
C4_Witness ==
  \E c \in Clients : \E o \in ops[c] : \E i \in 1..Len(bookings[c]) :
    /\ o.kind = "upsert" /\ o.st = "sent"
    /\ bookings[c][i].room = o.b.room /\ bookings[c][i].id # o.b.id
    /\ bookings[c][i].end = payload(c, o.b).start
    /\ ~C4_NoOverlapInStore

\* C5: a submission whose interval overlaps a shown booking of the same room
\* and another id is rejected in the same step: no upsert is issued, and the
\* table and the visible list stay as they were.
C5_ConflictRejected ==
  [][\A c \in Clients, room \in Rooms, person \in PersonInputs, slot \in Slots,
        duration \in Durations :
       LET s == currentDay[c] * SlotsPerDay + slot
           e == s + duration
           id == IF formId[c] # NoId THEN formId[c] ELSE nextId + 1
           hit == \E i \in 1..Len(bookings[c]) :
                    /\ bookings[c][i].room = room /\ bookings[c][i].id # id
                    /\ s - offset[c] < bookings[c][i].end
                    /\ bookings[c][i].start < e - offset[c]
       IN (hit /\ handleSubmit(c, room, person, slot, duration))
            => /\ result'[c] \in {"name", "past", "conflict"}
               /\ store' = store /\ bookings' = bookings
               /\ ops' = ops /\ fetches' = fetches]_vars
C5_Witness ==
  \E c \in Clients : result[c] = "conflict" /\ bookings[c] # <<>> /\ ops[c] = {}

\* C6: a submission that fails validation (name required and blank, or past
\* bookings not allowed and the end before now) ends in the same step: no
\* upsert and no fetch is issued, the table and the visible list stay.
C6_InvalidRejected ==
  [][\A c \in Clients, room \in Rooms, person \in PersonInputs, slot \in Slots,
        duration \in Durations :
       LET e == currentDay[c] * SlotsPerDay + slot + duration
           blank == \A k \in 1..Len(person) : person[k] = " "
           bad == \/ settings[c].requireName /\ blank
                  \/ ~settings[c].allowPast /\ e < now
       IN (bad /\ handleSubmit(c, room, person, slot, duration))
            => /\ result'[c] = (IF settings[c].requireName /\ blank
                                 THEN "name" ELSE "past")
               /\ store' = store /\ bookings' = bookings
               /\ ops' = ops /\ fetches' = fetches /\ hist' = hist]_vars
C6_Witness ==
  \E c \in Clients :
    /\ result[c] = "past" /\ bookings[c] # <<>>
    /\ ops[c] = {} /\ fetches[c] = {} /\ store = {FirstRow}

\* C7: a submission leaves the visible list alone when it issues its upsert,
\* and when the upsert fails it reports the failure, leaves the visible list
\* as it is and issues no fetch.
C7_FailedUpsertKeepsList ==
  [][\A c \in Clients :
       /\ \A o \in ops'[c] \ ops[c] : o.st = "sent" => bookings'[c] = bookings[c]
       /\ \A o \in ops[c] :
            (o.kind = "upsert" /\ o.st = "sent" /\ \A q \in ops'[c] : q.b # o.b)
              => /\ result'[c] = "repo"
                 /\ bookings'[c] = bookings[c]
                 /\ fetches'[c] = fetches[c]
                 /\ store' = store]_vars
C7_Witness ==
  \E c \in Clients : result[c] = "repo" /\ bookings[c] # <<>> /\ ops[c] = {}

\* C8: when addOrUpdateBooking reports success the visible list contains the
\* row it wrote.
C8_SuccessShowsRow ==
  [][\A c \in Clients : \A f \in fetches[c] :
       (f.by = "upsert" /\ completes(c, f))
         => (result'[c] = "ok" => payload(c, f.b) \in Range(bookings'[c]))]_vars

\* C9: a fetch that fails leaves the visible list as it was.
C9_FailedFetchKeepsList ==
  [][\A c \in Clients : \A f \in fetches[c] :
       (f.st = "sent" /\ completes(c, f)) => bookings'[c] = bookings[c]]_vars

\* C10: when nothing is under way any more (every fetch completed, every
\* notification delivered, no write pending), the visible list is the table's
\* rows of the viewed day.
C10_QuiescentConsistent ==
  \A c \in Clients : quiescent(c) => bookings[c] = selectDay(c, currentDay[c])

\* the values a submission of these form inputs passes the two validation
\* checks with, and the row it asks the table to write
formValid(c, person, slot, duration) ==
  /\ ~(settings[c].requireName /\ \A k \in 1..Len(person) : person[k] = " ")
  /\ ~(~settings[c].allowPast
         /\ currentDay[c] * SlotsPerDay + slot + duration < now)
formRow(c, room, slot, duration) ==
  [id |-> IF formId[c] # NoId THEN formId[c] ELSE nextId + 1, room |-> room,
   start |-> currentDay[c] * SlotsPerDay + slot - offset[c],
   end |-> currentDay[c] * SlotsPerDay + slot + duration - offset[c]]
\* the step issues an upsert of row r
issues(c, r) ==
  \E o \in ops'[c] \ ops[c] :
    o.kind = "upsert" /\ o.st = "sent" /\ payload(c, o.b) = r

\* C11: a valid submission is rejected as a conflict exactly when its interval
\* [start, end) and that of a shown booking of the same room and another id
\* satisfy start < other.end and other.start < end, whichever of the two is
\* taken first; otherwise, and so when the two only touch, the upsert is
\* issued.
C11_ConflictIffOverlap ==
  [][\A c \in Clients, room \in Rooms, person \in PersonInputs, slot \in Slots,
        duration \in Durations :
       LET r == formRow(c, room, slot, duration)
           others == {b \in Range(bookings[c]) : b.room = room /\ b.id # r.id}
           hit == \E b \in others : r.start < b.end /\ b.start < r.end
       IN (formValid(c, person, slot, duration)
             /\ handleSubmit(c, room, person, slot, duration))
            => /\ \A b \in others :
                    /\ overlaps(r.start, r.end, b.start, b.end)
                         = (r.start < b.end /\ b.start < r.end)
                    /\ overlaps(b.start, b.end, r.start, r.end)
                         = overlaps(r.start, r.end, b.start, b.end)
               /\ hit => (result'[c] = "conflict" /\ ops' = ops)
               /\ ~hit => issues(c, r)]_vars
C11_Witness ==
  \E c \in Clients : \E o \in ops[c] : \E b \in Range(bookings[c]) :
    /\ o.kind = "upsert" /\ o.st = "sent"
    /\ b.room = o.b.room /\ b.id # o.b.id
    /\ (b.end = payload(c, o.b).start \/ payload(c, o.b).end = b.start)

\* C12: a valid submission that carries the id of the booking being edited is
\* compared with the shown bookings of every other id only: it is issued
\* whenever none of those overlaps it in its room, whatever its own shown row
\* is, and rejected as a conflict when one of them does.
C12_EditExcludesSelf ==
  [][\A c \in Clients, room \in Rooms, person \in PersonInputs, slot \in Slots,
        duration \in Durations :
       LET r == formRow(c, room, slot, duration)
           hitOther == \E b \in Range(bookings[c]) :
                         /\ b.id # formId[c] /\ b.room = room
                         /\ rowsOverlap(r, b)
       IN (formId[c] # NoId /\ formValid(c, person, slot, duration)
             /\ handleSubmit(c, room, person, slot, duration))
            => /\ r.id = formId[c]
               /\ ~hitOther => (issues(c, r) /\ result'[c] = result[c])
               /\ hitOther => (result'[c] = "conflict" /\ ops' = ops)]_vars
C12_Witness ==
  \E c \in Clients : \E o \in ops[c] : \E b \in Range(bookings[c]) :
    /\ o.kind = "upsert" /\ o.st = "sent"
    /\ b.id = o.b.id /\ b.room = o.b.room
    /\ rowsOverlap(payload(c, o.b), b) /\ payload(c, o.b) # b

\* C13: the rows a fetch of a day is served are exactly the rows of the table
\* with dayStart <= start < dayEnd, in ascending order of start, and every
\* row of the table is in the result of exactly one day.
C13_DayQueryHalfOpen ==
  /\ [](\A c \in Clients : \A b \in store :
          Cardinality({d \in -1..(MaxDay + 1) : b \in Range(selectDay(c, d))}) = 1)
  /\ [][\A c \in Clients : \A f \in fetches[c] : \A g \in fetches'[c] :
         (g.n = f.n /\ f.st = "sent" /\ g.st = "ok") =>
           /\ Range(g.data) =
                {b \in store : /\ f.day * SlotsPerDay - offset[c] <= b.start
                               /\ b.start < (f.day + 1) * SlotsPerDay - offset[c]}
           /\ Len(g.data) = Cardinality(Range(g.data))
           /\ \A i \in 1..(Len(g.data) - 1) :
                g.data[i].start <= g.data[i + 1].start]_vars
C13_Witness ==
  \E c \in Clients : \E f \in fetches[c] : \E g \in fetches[c] : \E b \in store :
    /\ f.st = "ok" /\ b \in Range(f.data)
    /\ b.start = f.day * SlotsPerDay - offset[c]
    /\ g.st = "ok" /\ b \notin Range(g.data)
    /\ b.start = (g.day + 1) * SlotsPerDay - offset[c]

\* the start time a returned slot stands for, in minutes after the day's
\* start: a Date of enumerateSlots, or a label as handleSubmit reads it
slotMinute(x) == IF ret.fn = "timeOptions" THEN x[1] * 60 + x[2] ELSE x

C15_InvalidRangeFails ==
  (ret.fn \in {"enumerateSlots", "timeOptions"} /\ arg[2] <= arg[1])
    => ret.kind = "InvalidRangeError"

\* C16: a delete the table serves ends without error and removes the rows of
\* its id and nothing else, so with no such row the table stays as it is; a
\* served delete continues in the try branch of deleteBooking.
C16_DeleteIdempotent ==
  [][\A c \in Clients : \A o \in ops[c] :
       /\ (o.kind = "delete" /\ o.st = "sent" /\ [o EXCEPT !.st = "ok"] \in ops'[c])
            => /\ store' = {r \in store : r.id # o.b.id}
               /\ (\A r \in store : r.id # o.b.id) => store' = store
       /\ (o.kind = "delete" /\ o.st = "ok" /\ o \notin ops'[c])
            => \E f \in fetches'[c] \ fetches[c] : f.by = "delete"]_vars
C16_Witness ==
  \E c \in Clients : \E o \in ops[c] : \E f \in fetches[c] :
    /\ o.kind = "delete" /\ o.st = "ok"
    /\ f.by = "delete" /\ f.b.id = o.b.id
    /\ store # {}
    /\ \A r \in store : r.id # o.b.id

\* the kind of failure a call ended in
failureKind(r) ==
  CASE r \in {"name", "past"} -> "validation"
    [] r = "conflict" -> "conflict"
    [] r = "repo" -> "repository"
    [] OTHER -> "none"

\* C17: the value addOrUpdateBooking returns identifies the kind of its
\* failure: two calls that fail with different kinds return different values.
C17_FailureKindReturned ==
  [][\A c \in Clients :
       (/\ failureKind(result[c]) # "none" /\ failureKind(result'[c]) # "none"
        /\ failureKind(result[c]) # failureKind(result'[c]))
         => returnValue(c)' # returnValue(c)]_vars

\* C18: a submission whose end is not after its start is rejected before any
\* persistence attempt: every upsert a client issues has start < end.
C18_MalformedRejected ==
  \A c \in Clients : \A o \in ops[c] :
    o.kind = "upsert" => o.b.startLocal < o.b.endLocal

\* C19: a submission is rejected by validation exactly when the name is
\* required and blank, or past bookings are not allowed and its end precedes
\* now: no upsert is issued and the rejection is reported; otherwise it goes
\* on to the conflict check.
C19_ValidateExactly ==
  [][\A c \in Clients, room \in Rooms, person \in PersonInputs, slot \in Slots,
        duration \in Durations :
       LET blank == \A k \in 1..Len(person) : person[k] = " "
           e == currentDay[c] * SlotsPerDay + slot + duration
           invalid == \/ settings[c].requireName /\ blank
                      \/ ~settings[c].allowPast /\ e < now
       IN ((result'[c] # result[c] \/ ops'[c] # ops[c])
             /\ handleSubmit(c, room, person, slot, duration))
            => (invalid <=> (result'[c] \in {"name", "past"} /\ ops' = ops))]_vars
C19_Witness ==
  \E c \in Clients : \E o \in ops[c] :
    /\ o.kind = "upsert" /\ o.st = "sent"
    /\ o.b.person = <<>> /\ o.b.endLocal < now
    /\ ~settings[c].requireName /\ settings[c].allowPast

\* what one character of a text stands for in an iCalendar value
escapedChar(ch) ==
  CASE ch = "\\" -> <<"\\", "\\">>
    [] ch = "," -> <<"\\", ",">>
    [] ch = ";" -> <<"\\", ";">>
    [] ch = "\n" -> <<"\\", "n">>
    [] OTHER -> <<ch>>
RECURSIVE escapedText(_)
escapedText(s) ==
  IF s = <<>> THEN <<>> ELSE escapedChar(Head(s)) \o escapedText(Tail(s))

\* C20: escapeICS returns its text with every backslash doubled, every comma,
\* semicolon and newline replaced by backslash-comma, backslash-semicolon and
\* backslash-n, and every other character as it is; no backslash it wrote is
\* escaped again.
C20_EscapedCharByChar ==
  ret.fn = "escapeICS" => (ret.kind = "value" /\ ret.v = escapedText(arg))
C20_Witness ==
  /\ ret.fn = "escapeICS" /\ arg = <<"\\", ",", "\n">>
  /\ ret.v = <<"\\", "\\", "\\", ",", "\\", "n">>

\* the fetches client c issues in this step
issued(c) == {f \in fetches'[c] : f.n > Len(hist[c])}
\* the events of a step of client c: the viewed day changes, a notification is
\* delivered, a served write resumes, an unserved write is rejected
dayChanges(c) == currentDay'[c] # currentDay[c]
notified(c) == notif'[c] < notif[c]
writeSucceeds(c) == \E o \in ops[c] : o.st = "ok" /\ o \notin ops'[c]
writeFails(c) == \E o \in ops[c] : o.st = "sent" /\ \A q \in ops'[c] : q.b # o.b

\* C21: a step issues a fetch exactly when the viewed day changes, a
\* notification is delivered or an upsert or delete has succeeded; a failed
\* upsert or delete issues none; and every fetch issued asks for the day that
\* is viewed.
C21_FetchTriggers ==
  [][\A c \in Clients :
       /\ issued(c) # {} <=> (dayChanges(c) \/ notified(c) \/ writeSucceeds(c))
       /\ writeFails(c) => issued(c) = {}
       /\ \A f \in issued(c) : f.day = currentDay'[c]]_vars

\* C22: the visible list is empty until a fetch has completed, and it changes
\* only in a step in which a fetch completes, to the whole result of that
\* fetch: the rows it was served, or the empty list when it failed. No other
\* step (submission, conflict check, upsert, delete, settings) touches it.
C22_SnapshotReplacedWhole ==
  /\ [](\A c \in Clients : applied[c] = 0 => bookings[c] = <<>>)
  /\ [][\A c \in Clients :
          /\ bookings'[c] # bookings[c] => \E f \in fetches[c] : completes(c, f)
          /\ \A f \in fetches[c] : completes(c, f) =>
               bookings'[c] = (IF f.st = "ok" THEN f.data ELSE <<>>)]_vars
C22_Witness ==
  \E c \in Clients :
    /\ applied[c] = 2 /\ Len(bookings[c]) = 2
    /\ settings[c].allowPast /\ ~settings[c].requireName

\* C23: an upsert issued while a booking is loaded carries that booking's id,
\* otherwise an id no row and no earlier submission has; when the table serves
\* it, the row replaces the row of that id or is added, so the number of rows
\* grows by at most one and no two rows share an id; the form that submitted
\* leaves edit mode when the submission succeeds and keeps its id when the
\* submission fails (validation, conflict or rejected upsert).
C23_SubmitIdentity ==
  /\ [](\A a \in store : \A b \in store : a.id = b.id => a = b)
  /\ [][\A c \in Clients :
          /\ \A o \in ops'[c] \ ops[c] : (o.kind = "upsert" /\ o.st = "sent") =>
               IF formId[c] # NoId
                 THEN o.b.id = formId[c]
                 ELSE /\ o.b.id > nextId
                      /\ \A r \in store : r.id # o.b.id
          /\ \A o \in ops[c] :
               (o.kind = "upsert" /\ o.st = "sent" /\ [o EXCEPT !.st = "ok"] \in ops'[c])
                 => /\ payload(c, o.b) \in store'
                    /\ \A r \in store' : r.id # o.b.id => r \in store
                    /\ Cardinality(store') - Cardinality(store) \in {0, 1}
          /\ \A f \in fetches[c] :
               (f.by = "upsert" /\ completes(c, f) /\ formInst[c] = f.inst)
                 => formId'[c] = NoId
          /\ (/\ result'[c] \in {"name", "past", "conflict", "repo"}
              /\ (result'[c] # result[c] \/ writeFails(c)))
               => formId'[c] = formId[c]]_vars
C23_Witness ==
  \E c \in Clients : \E r \in store :
    /\ result[c] = "ok" /\ formId[c] = NoId /\ nextId = 1
    /\ store = {r} /\ r.id = FirstRow.id /\ r # FirstRow

\* C24 (as stated): a delete can be asked for every shown booking whatever the
\* settings and the form hold; a failed delete leaves the visible list alone
\* and issues no fetch; a succeeded delete issues a fetch, and the list that
\* fetch's completion sets does not contain the deleted id.
C24_DeleteRefetch ==
  /\ [](\A c \in Clients : \A i \in 1..Len(bookings[c]) :
          Cardinality(ops[c]) < MaxOps => ENABLED deleteBooking(c, i))
  /\ [][\A c \in Clients :
          /\ \A o \in ops'[c] \ ops[c] : (o.kind = "delete" /\ o.st = "sent") =>
               /\ o.b.id \in {bookings[c][i].id : i \in 1..Len(bookings[c])}
               /\ result'[c] = result[c] /\ bookings'[c] = bookings[c]
               /\ fetches'[c] = fetches[c] /\ store' = store
          /\ \A o \in ops[c] :
               (o.kind = "delete" /\ o.st = "sent" /\ \A q \in ops'[c] : q.b # o.b)
                 => bookings'[c] = bookings[c] /\ fetches'[c] = fetches[c]
          /\ \A o \in ops[c] :
               (o.kind = "delete" /\ o.st = "ok" /\ o \notin ops'[c])
                 => \E f \in issued(c) : f.by = "delete" /\ f.b.id = o.b.id
          /\ \A f \in fetches[c] : (f.by = "delete" /\ completes(c, f)) =>
               \A i \in 1..Len(bookings'[c]) : bookings'[c][i].id # f.b.id]_vars

\* C24 (amended): as above up to the fetch; the served delete leaves no row of
\* the deleted id in the table, and the fetch issued after it is served the
\* deleted id only if the table holds a row of that id again by then.
C24_DeleteRefetchServed ==
  /\ [](\A c \in Clients : \A i \in 1..Len(bookings[c]) :
          Cardinality(ops[c]) < MaxOps => ENABLED deleteBooking(c, i))
  /\ [][\A c \in Clients :
          /\ \A o \in ops'[c] \ ops[c] : (o.kind = "delete" /\ o.st = "sent") =>
               /\ o.b.id \in {bookings[c][i].id : i \in 1..Len(bookings[c])}
               /\ result'[c] = result[c] /\ bookings'[c] = bookings[c]
               /\ fetches'[c] = fetches[c] /\ store' = store
          /\ \A o \in ops[c] :
               (o.kind = "delete" /\ o.st = "sent" /\ \A q \in ops'[c] : q.b # o.b)
                 => bookings'[c] = bookings[c] /\ fetches'[c] = fetches[c]
          /\ \A o \in ops[c] :
               (o.kind = "delete" /\ o.st = "ok" /\ o \notin ops'[c])
                 => \E f \in issued(c) : f.by = "delete" /\ f.b.id = o.b.id
          /\ \A o \in ops[c] :
               (o.kind = "delete" /\ o.st = "sent" /\ [o EXCEPT !.st = "ok"] \in ops'[c])
                 => \A r \in store' : r.id # o.b.id
          /\ \A f \in fetches[c] : \A g \in fetches'[c] :
               (f.by = "delete" /\ f.st = "sent" /\ g.n = f.n /\ g.st = "ok")
                 => \A i \in 1..Len(g.data) :
                      g.data[i].id = f.b.id => g.data[i] \in store
          /\ \A f \in fetches[c] : (f.by = "delete" /\ completes(c, f)) =>
               bookings'[c] = (IF f.st = "ok" THEN f.data ELSE <<>>)]_vars
C24_Witness ==
  \E c \in Clients :
    /\ store = {} /\ nextId = 1 /\ ops[c] = {} /\ fetches[c] = {}
    /\ applied[c] = 2 /\ bookings[c] = <<>> /\ result[c] = "none"

\* C25: a submission with a name is decided on absolute instants: it is
\* rejected as past exactly when past bookings are not allowed and the end it
\* would persist is before now, and otherwise rejected as a conflict exactly
\* when the interval it would persist overlaps the persisted interval of a
\* shown booking of the same room and another id, whatever the client's zone.
C25_AbsoluteInstants ==
  [][\A c \in Clients, room \in Rooms, person \in PersonInputs, slot \in Slots,
        duration \in Durations :
       LET r == formRow(c, room, slot, duration)
           named == ~(settings[c].requireName
                        /\ \A k \in 1..Len(person) : person[k] = " ")
           past == ~settings[c].allowPast /\ r.end < now
           hit == \E i \in 1..Len(bookings[c]) :
                    /\ bookings[c][i].room = r.room /\ bookings[c][i].id # r.id
                    /\ rowsOverlap(r, bookings[c][i])
       IN (named /\ handleSubmit(c, room, person, slot, duration))
            => /\ past => (~issues(c, r) /\ ops'[c] = ops[c])
               /\ (~past /\ hit) => (~issues(c, r) /\ ops'[c] = ops[c])
               /\ (~past /\ ~hit) => issues(c, r)]_vars

\* the visible list of client c is the table's rows of the viewed day, set by
\* a completed fetch, and no fetch is under way
synced(c) ==
  fetches[c] = {} /\ applied[c] > 0 /\ bookings[c] = selectDay(c, currentDay[c])

\* C26: with one client, a submission accepted while the visible list is the
\* table's rows of the viewed day, no fetch and no write is under way and the
\* table has no overlap, asks for a row that overlaps no row of the same room
\* and another id in the table.
C26_SyncedSubmitNoOverlap ==
  [][\A c \in Clients : \A o \in ops'[c] \ ops[c] :
       (/\ o.kind = "upsert" /\ o.st = "sent"
        /\ synced(c) /\ ops[c] = {} /\ C4_NoOverlapInStore)
         => \A r \in store :
              (r.room = o.b.room /\ r.id # o.b.id)
                => ~rowsOverlap(payload(c, o.b), r)]_vars

\* C27: every fetch asks, when it is issued, for the day that is viewed at that
\* moment, whoever issues it (load effect, notification callback, refetch
\* after an upsert or a delete).
C27_FetchDayIsViewed ==
  [][\A c \in Clients : \A f \in issued(c) :
       \/ dayChanges(c) /\ f.by = "load" /\ f.day = currentDay'[c]
       \/ ~dayChanges(c) /\ f.day = currentDay[c]]_vars

\* C28: at every moment a client has exactly one subscription, that of the
\* viewed day, and a fetch issued by a notification asks for the day viewed
\* when the notification is delivered.
C28_OneSubscription ==
  /\ [](\A c \in Clients : subs[c] = {currentDay[c]})
  /\ [][\A c \in Clients : \A f \in issued(c) :
          (notified(c) \/ f.by = "rt")
            => (notified(c) /\ f.by = "rt" /\ f.day = currentDay[c])]_vars
C28_Witness ==
  \E c \in Clients : \E f \in fetches[c] :
    /\ f.by = "rt" /\ f.day = currentDay[c]
    /\ Len(hist[c]) = 3 /\ hist[c][1] # currentDay[c] /\ hist[c][2] = currentDay[c]

\* C29: "Ayer" moves the viewed local day back by exactly one day and
\* "Mañana" forward by exactly one day, from every viewed day, also next to a
\* day of 23 or 25 hours.
C29_NavMovesOneDay ==
  /\ ret.fn = "Ayer" => ret.v[2] = ret.v[1] - 1
  /\ ret.fn = "Manana" => ret.v[2] = ret.v[1] + 1

\* C30: the start time of every submitted booking is one of the options of
\* the operating window in force when it is submitted.
C30_StartInWindow ==
  ret.fn = "handleSubmit"
    => ret.v \in Range(timeOptions(arg.startHour, arg.endHour))

====
